---- MODULE Spec2Model ----
(***************************************************************************)
(* The WebRTC signaling relay of src/main.py (signaling_ws, lines 151-174): *)
(* a module-level dict `rooms` from room code to a set of websockets, and   *)
(* one asyncio handler per websocket.  asyncio runs handlers on one thread, *)
(* so the code between two awaits is one atomic step.  The awaits are       *)
(* accept() (line 155), receive_text() (line 161) and send_text() (166).    *)
(***************************************************************************)
EXTENDS Integers, Sequences, FiniteSets, TLC

\* Bounds of the model: the inbound frames read by all handlers together, the
\* channel faults (client closes and unreadable frames) and the client stalls.
MaxMsgs == 2
MaxFaults == 2
MaxStalls == 1

\* The connections, room codes and payloads of the scenarios of spec section 8.
Conns == {"A", "B", "C"}
Codes == {"R1", "R2"}
Payloads == {"x", "y"}

VARIABLES
    rooms,      \* the dict `rooms`: a function from the codes present to sets of websockets
    code,       \* code[c]: the path parameter `code` of c's handler
    pc,         \* pc[c]: where c's handler is suspended, or how it ended
    chan,       \* chan[c]: the state of the channel to c's client
    data,       \* data[c]: the local `data` of c's handler
    snapshot,   \* snapshot[c]: the list built by list(rooms.get(code, [])) at line 163
    idx,        \* idx[c]: position of the for loop of line 163 in snapshot[c]
    sent,       \* sent[c]: the text frames c's client has sent and the handler has read
    received,   \* received[c]: the frames c's client has got, in order of arrival
    attempted,  \* attempted[c]: recipients send_text was called on in the current broadcast
    failed,     \* failed[c]: <<n, r>> when send_text to r raised in c's n-th broadcast
    exitKind,   \* exitKind[c]: how c's handler left the handler body
    joins,      \* joins[k]: executions of line 158 for code k
    leaves,     \* leaves[k]: executions of line 172 for code k with the websocket present
    faults,     \* channel faults so far
    stalls      \* client stalls so far

vars == <<rooms, code, pc, chan, data, snapshot, idx, sent, received,
          attempted, failed, exitKind, joins, leaves, faults, stalls>>

----------------------------------------------------------------------------
\* Helpers

Range(s) == {s[i] : i \in 1..Len(s)}

\* All orders in which iterating a Python set can yield its elements.
Perms(S) ==
    {s \in [1..Cardinality(S) -> S] : \A i, j \in 1..Cardinality(S) : s[i] = s[j] => i = j}

RECURSIVE SumLens(_, _)
SumLens(f, S) ==
    IF S = {} THEN 0
    ELSE LET c == CHOOSE x \in S : TRUE IN Len(f[c]) + SumLens(f, S \ {c})

TotalSent == SumLens(sent, Conns)

----------------------------------------------------------------------------
\* The registry operations, as inlined in signaling_ws

\* rooms.get(k, set()) / rooms.get(k, []) / rooms.get(k)
Get(r, k) == IF k \in DOMAIN r THEN r[k] ELSE {}

\* rooms.pop(k, None)
Pop(r, k) == [j \in DOMAIN r \ {k} |-> r[j]]

\* Mutant: rooms[code] = set() without the test of line 156.
CreateAlways(r, k) == (k :> {}) @@ r

\* if code not in rooms: rooms[code] = set()
CreateIfAbsent(r, k) == IF k \notin DOMAIN r THEN r @@ (k :> {}) ELSE r

\* Mutant: the websocket is added to the set of every room present.
AddToEveryRoom(r, k, ws) == [j \in DOMAIN r |-> r[j] \cup {ws}]

\* rooms[code].add(websocket)
Add(r, k, ws) == [r EXCEPT ![k] = @ \cup {ws}]

\* lines 156-158
Join(r, k, ws) == Add(CreateIfAbsent(r, k), k, ws)

\* Mutant: line 172 discards from the default set() instead of the room's set.
DiscardFromDefault(r, k, ws) == r

\* rooms.get(code, set()).discard(websocket)
Discard(r, k, ws) == IF k \in DOMAIN r THEN [r EXCEPT ![k] = @ \ {ws}] ELSE r

\* Mutant: the room entry is popped without the test of line 173.
PopAlways(r, k) == Pop(r, k)

\* Mutant: lines 173-174 left out.
PopNever(r, k) == r

\* if not rooms.get(code): rooms.pop(code, None)
PopIfEmpty(r, k) == IF Get(r, k) = {} THEN Pop(r, k) ELSE r

\* lines 172-174
Leave(r, k, ws) == PopIfEmpty(Discard(r, k, ws), k)

\* Mutant: the cleanup in the except clause of line 169 instead of a finally.
CleanupOnDisconnect(r, k, ws, exc) ==
    IF exc = "WebSocketDisconnect" THEN Leave(r, k, ws) ELSE r

\* finally: (lines 171-174) runs on every exit from the try block, whatever
\* exception `exc` ended it
Cleanup(r, k, ws, exc) == Leave(r, k, ws)

\* Mutant: the broadcast iterates the websockets of every room.
MembersOfAllRooms(r, k) == UNION {r[j] : j \in DOMAIN r}

\* for ws in list(rooms.get(code, [])): the members the broadcast iterates
Members(r, k) == Get(r, k)

\* Mutant: line 164 left out.
IsRecipientAlways(ws, self) == TRUE

\* if ws is not websocket: (line 164)
IsRecipient(ws, self) == ws # self

\* Mutant: the loop runs over the live set, so that a member that has left by
\* the time its turn comes is passed over.
RECURSIVE NextIdxLive(_, _, _)
NextIdxLive(snap, i, self) ==
    IF i > Len(snap) THEN Len(snap) + 1
    ELSE IF IsRecipient(snap[i], self) /\ snap[i] \in Get(rooms, code[self]) THEN i
    ELSE NextIdxLive(snap, i + 1, self)

\* The for loop of lines 163-164: the first position from i on that holds a
\* recipient, or Len(snap) + 1 when the loop is over.
RECURSIVE NextIdx(_, _, _)
NextIdx(snap, i, self) ==
    IF i > Len(snap) THEN Len(snap) + 1
    ELSE IF IsRecipient(snap[i], self) THEN i
    ELSE NextIdx(snap, i + 1, self)

\* The exceptions send_text can raise on a dead channel; both derive from Exception.
SendErrors == {"RuntimeError", "WebSocketDisconnect"}

\* Mutant: except WebSocketDisconnect: pass at line 167.
CaughtOnlyDisconnect(exc) == exc = "WebSocketDisconnect"

\* except Exception: pass (lines 167-168)
CaughtInLoop(exc) == exc \in {"RuntimeError", "WebSocketDisconnect"}

\* Mutant: the except clause removes the dead peer from the room.
DropDeadPeer(r, k, ws) == Leave(r, k, ws)

\* except Exception: pass (lines 167-168): rooms is left as it is.
RegistryAfterSendError(r, k, ws) == r

\* The try of line 165 is inside the for loop: after the except clause the loop
\* goes on with the element after position i.
\* Mutant: the try around the whole loop, so that a failure ends the loop.
AfterFailureAbort(snap, i) == Len(snap) + 1

\* Mutant: the send that raised is tried again.
AfterFailureRetry(snap, i) == i

AfterFailure(snap, i) == i + 1

\* Mutant: the handler forwards the first frame it read instead of `data`.
OutboundStale(c) == [from |-> c, seq |-> Len(sent[c]), body |-> sent[c][1]]

\* The frame send_text(data) puts on the channel (line 166), tagged with the
\* handler that sends it and the number of the inbound frame it forwards.
Outbound(c) == [from |-> c, seq |-> Len(sent[c]), body |-> data[c]]

\* Mutant: a frame overtakes the frames sent before it.
DeliverFirst(log, m) == <<m>> \o log

\* The channel delivers the frames of successive send_text calls in call order.
Deliver(log, m) == Append(log, m)

----------------------------------------------------------------------------
\* Every assignment of codes to the three connections is, up to renaming of
\* connections and codes, one of these two: one room of three, or two rooms.
Paths ==
    {[c \in Conns |-> "R1"], [c \in Conns |-> IF c = "C" THEN "R2" ELSE "R1"]}

Init ==
    /\ rooms = <<>>
    /\ code \in Paths
    /\ pc = [c \in Conns |-> "Connecting"]
    /\ chan = [c \in Conns |-> "open"]
    /\ data = [c \in Conns |-> "none"]
    /\ snapshot = [c \in Conns |-> <<>>]
    /\ idx = [c \in Conns |-> 1]
    /\ sent = [c \in Conns |-> <<>>]
    /\ received = [c \in Conns |-> <<>>]
    /\ attempted = [c \in Conns |-> <<>>]
    /\ failed = [c \in Conns |-> {}]
    /\ exitKind = [c \in Conns |-> "running"]
    /\ joins = [k \in Codes |-> 0]
    /\ leaves = [k \in Codes |-> 0]
    /\ faults = 0
    /\ stalls = 0

\* Mutant: a lock on rooms that a handler holds for the whole for loop of
\* lines 163-168, sends included.
RegistryHeldByBroadcast(c) == \A d \in Conns \ {c} : pc[d] # "Sending"

\* Lines 156-158 and 172-174 take no lock and hold no await: a handler that
\* reaches them runs them at once, whatever the other handlers are doing.
RegistryAvailable(c) == TRUE

\* Mutant: the except clause of line 169 inside the while loop, so that the
\* loop goes on after a disconnect.
PcAfterExitResume(exc) == IF exc = "WebSocketDisconnect" THEN "Relaying" ELSE "Closed"

\* The try of line 159 encloses the while loop of line 160: an exception ends
\* the loop, and after the finally clause the handler returns.
PcAfterExit(exc) == "Closed"

\* The handler of c leaves the try block of lines 159-170 with exception exc:
\* the finally clause runs, the handler returns (its locals are gone) and the
\* server closes the channel.
ExitHandler(c, exc) ==
    /\ RegistryAvailable(c)
    /\ rooms' = Cleanup(rooms, code[c], c, exc)
    /\ leaves' = IF c \in Get(rooms, code[c])
                 THEN [leaves EXCEPT ![code[c]] = @ + 1] ELSE leaves
    /\ pc' = [pc EXCEPT ![c] = PcAfterExit(exc)]
    /\ chan' = [chan EXCEPT ![c] = "closed"]
    /\ exitKind' = [exitKind EXCEPT ![c] = exc]
    /\ data' = [data EXCEPT ![c] = "none"]
    /\ snapshot' = [snapshot EXCEPT ![c] = <<>>]
    /\ idx' = [idx EXCEPT ![c] = 1]
    /\ attempted' = [attempted EXCEPT ![c] = <<>>]

\* The for loop moves on from position i (lines 163-164), back to
\* receive_text (line 161) when the list is exhausted.
Continue(c, snap, i) ==
    LET j == NextIdx(snap, i, c) IN
    /\ idx' = [idx EXCEPT ![c] = j]
    /\ pc' = [pc EXCEPT ![c] = IF j > Len(snap) THEN "Relaying" ELSE "Sending"]

\* await websocket.accept() returns; lines 156-158 run with no await between.
AcceptOk(c) ==
    /\ pc[c] = "Connecting"
    /\ RegistryAvailable(c)
    /\ rooms' = Join(rooms, code[c], c)
    /\ joins' = [joins EXCEPT ![code[c]] = @ + 1]
    /\ pc' = [pc EXCEPT ![c] = "Relaying"]
    /\ UNCHANGED <<code, chan, data, snapshot, idx, sent, received, attempted,
                   failed, exitKind, leaves, faults, stalls>>

\* Mutant: lines 156-158 placed before the accept() of line 155.
JoinBeforeAccept(r, k, ws) == Join(r, k, ws)

\* accept() (line 155) comes before lines 156-158 and outside the try: when it
\* raises, the handler has not touched rooms and no finally clause runs.
RegistryAfterFailedAccept(r, k, ws) == r

\* await websocket.accept() raises (the client is gone): line 155 is outside the
\* try, so the handler ends without touching rooms.
AcceptFail(c) ==
    /\ pc[c] = "Connecting"
    /\ chan[c] = "closed"
    /\ pc' = [pc EXCEPT ![c] = "Rejected"]
    /\ exitKind' = [exitKind EXCEPT ![c] = "UpgradeFailed"]
    /\ rooms' = RegistryAfterFailedAccept(rooms, code[c], c)
    /\ UNCHANGED <<code, chan, data, snapshot, idx, sent, received,
                   attempted, failed, joins, leaves, faults, stalls>>

\* data = await websocket.receive_text() returns a frame (line 161); the handler
\* builds the list of line 163 and runs the loop up to its first send_text.
Receive(c) ==
    /\ pc[c] = "Relaying"
    /\ chan[c] # "closed"
    /\ TotalSent < MaxMsgs
    /\ \E p \in Payloads, snap \in Perms(Members(rooms, code[c])) :
          /\ data' = [data EXCEPT ![c] = p]
          /\ sent' = [sent EXCEPT ![c] = Append(@, p)]
          /\ snapshot' = [snapshot EXCEPT ![c] = snap]
          /\ attempted' = [attempted EXCEPT ![c] = <<>>]
          /\ Continue(c, snap, 1)
    /\ UNCHANGED <<rooms, code, chan, received, failed, exitKind, joins, leaves,
                   faults, stalls>>

\* await ws.send_text(data) returns (line 166): the frame is on ws's channel.
SendOk(c) ==
    /\ pc[c] = "Sending"
    /\ LET ws == snapshot[c][idx[c]] IN
          /\ chan[ws] = "open"
          /\ received' = [received EXCEPT ![ws] = Deliver(@, Outbound(c))]
          /\ attempted' = [attempted EXCEPT ![c] = Append(@, ws)]
    /\ Continue(c, snapshot[c], idx[c] + 1)
    /\ UNCHANGED <<rooms, code, chan, data, snapshot, sent, failed, exitKind,
                   joins, leaves, faults, stalls>>

\* await ws.send_text(data) raises (line 166): ws's channel is closed.  The
\* exception is caught at line 167 and the loop goes on; an exception that
\* line 167 does not catch leaves the try block.
SendFail(c) ==
    /\ pc[c] = "Sending"
    /\ LET ws == snapshot[c][idx[c]] IN
          /\ chan[ws] = "closed"
          /\ failed' = [failed EXCEPT ![c] = @ \cup {<<Len(sent[c]), ws>>}]
          /\ \E exc \in SendErrors :
                IF CaughtInLoop(exc)
                THEN /\ attempted' = [attempted EXCEPT ![c] = Append(@, ws)]
                     /\ Continue(c, snapshot[c], AfterFailure(snapshot[c], idx[c]))
                     /\ rooms' = RegistryAfterSendError(rooms, code[c], ws)
                     /\ UNCHANGED <<chan, data, snapshot, exitKind, leaves>>
                ELSE ExitHandler(c, exc)
    /\ UNCHANGED <<code, sent, received, joins, faults, stalls>>

\* await websocket.receive_text() raises WebSocketDisconnect (line 161): caught
\* at line 169, then the finally clause.
RecvDisconnect(c) ==
    /\ pc[c] = "Relaying"
    /\ chan[c] = "closed"
    /\ ExitHandler(c, "WebSocketDisconnect")
    /\ UNCHANGED <<code, sent, received, failed, joins, faults, stalls>>

\* await websocket.receive_text() raises another exception (line 161), such as
\* the KeyError of a binary frame: line 169 does not catch it, finally runs.
RecvError(c) ==
    /\ pc[c] = "Relaying"
    /\ chan[c] # "closed"
    /\ faults < MaxFaults
    /\ faults' = faults + 1
    /\ ExitHandler(c, "ReadError")
    /\ UNCHANGED <<code, sent, received, failed, joins, stalls>>

\* The environment: c's client closes its end of the channel.
ClientClose(c) ==
    /\ pc[c] \in {"Connecting", "Relaying", "Sending"}
    /\ chan[c] # "closed"
    /\ faults < MaxFaults
    /\ faults' = faults + 1
    /\ chan' = [chan EXCEPT ![c] = "closed"]
    /\ UNCHANGED <<rooms, code, pc, data, snapshot, idx, sent, received, attempted,
                   failed, exitKind, joins, leaves, stalls>>

\* The environment: c's client stops reading, so that a send_text to c does
\* not return until it reads again.
ClientStall(c) ==
    /\ pc[c] \in {"Relaying", "Sending"}
    /\ chan[c] = "open"
    /\ stalls < MaxStalls
    /\ stalls' = stalls + 1
    /\ chan' = [chan EXCEPT ![c] = "stalled"]
    /\ UNCHANGED <<rooms, code, pc, data, snapshot, idx, sent, received, attempted,
                   failed, exitKind, joins, leaves, faults>>

\* The environment: c's client reads again.
ClientResume(c) ==
    /\ chan[c] = "stalled"
    /\ chan' = [chan EXCEPT ![c] = "open"]
    /\ UNCHANGED <<rooms, code, pc, data, snapshot, idx, sent, received, attempted,
                   failed, exitKind, joins, leaves, faults, stalls>>

\* The steps of c's handler.
Handler(c) ==
    \/ AcceptOk(c)
    \/ AcceptFail(c)
    \/ Receive(c)
    \/ SendOk(c)
    \/ SendFail(c)
    \/ RecvDisconnect(c)
    \/ RecvError(c)

Next ==
    \E c \in Conns :
        \/ Handler(c)
        \/ ClientClose(c)
        \/ ClientStall(c)
        \/ ClientResume(c)

Spec == Init /\ [][Next]_vars

\* The event loop runs every handler that is ready to run: a handler whose
\* await can return or raise is resumed.  The clients owe nothing.
FairSpec == Spec /\ \A c \in Conns : WF_vars(Handler(c))

----------------------------------------------------------------------------
\* Vocabulary of the properties

\* c's handler is back at receive_text after the broadcast of its latest frame.
BroadcastDone(c) == pc[c] = "Relaying" /\ Len(sent[c]) > 0

\* The members the current broadcast of c has to send to.
Audience(c) == Range(snapshot[c]) \ {c}

\* send_text to r raised in the current broadcast of c.
FailedNow(c, r) == <<Len(sent[c]), r>> \in failed[c]

\* The number of copies r's client got of the n-th frame of s.
Copies(r, s, n) ==
    Cardinality({i \in 1..Len(received[r]) :
                    received[r][i].from = s /\ received[r][i].seq = n})

\* The frames r's client got from s, as positions of received[r].
FromSender(r, s) == {i \in 1..Len(received[r]) : received[r][i].from = s}

----------------------------------------------------------------------------
\* C1: a broadcast never delivers a frame back to its sender: no client's log
\* of received frames holds a frame its own handler forwarded, and when a
\* broadcast is over every other member of the snapshot whose send did not
\* raise has got exactly one copy of the frame.
C1_NoEchoToSender ==
    /\ \A c \in Conns : \A i \in 1..Len(received[c]) : received[c][i].from # c
    /\ \A c \in Conns :
          BroadcastDone(c) =>
              /\ Copies(c, c, Len(sent[c])) = 0
              /\ \A r \in Audience(c) :
                    ~FailedNow(c, r) => Copies(r, c, Len(sent[c])) = 1

\* A's frame "x" went to a room {A, B, C}: B and C hold one copy, A none.
C1_Witness ==
    /\ BroadcastDone("A")
    /\ sent["A"] = <<"x">>
    /\ Range(snapshot["A"]) = {"A", "B", "C"}
    /\ Copies("B", "A", 1) = 1
    /\ Copies("C", "A", 1) = 1
    /\ received["A"] = <<>>

\* C2: a handler that has ended, by WebSocketDisconnect or by any other read
\* error, is in no member set of the registry.
C2_NoLeakAfterExit ==
    \A c \in Conns :
        pc[c] \in {"Closed", "Rejected"} => \A k \in DOMAIN rooms : c \notin rooms[k]

\* A handler that had joined ended by a read error other than a disconnect,
\* while another member of its room lives on.
C2_Witness ==
    \E c \in Conns :
        /\ pc[c] = "Closed"
        /\ exitKind[c] = "ReadError"
        /\ code[c] \in DOMAIN rooms

\* C3: every code present in the registry maps to a non-empty set, and a code
\* none of whose handlers is between join and cleanup is absent.
C3_NoEmptyRoom ==
    /\ \A k \in DOMAIN rooms : rooms[k] # {}
    /\ \A k \in Codes :
          (\A c \in Conns : code[c] = k => pc[c] \notin {"Relaying", "Sending"})
              => k \notin DOMAIN rooms

\* The last member of R1 has left: R1 was joined and is absent again.
C3_Witness ==
    /\ joins["R1"] > 0
    /\ leaves["R1"] = joins["R1"]
    /\ "R1" \notin DOMAIN rooms

\* C4: the member count of a room is its joins minus its matching leaves and
\* is never negative; joining a websocket that is present changes nothing, and
\* leaving with a websocket or a room that is absent changes nothing.
C4_MemberCount ==
    /\ \A k \in Codes :
          /\ joins[k] >= leaves[k]
          /\ Cardinality(Get(rooms, k)) = joins[k] - leaves[k]
    /\ \A k \in Codes, c \in Conns :
          /\ c \in Get(rooms, k) => Join(rooms, k, c) = rooms
          /\ Cardinality(Get(Join(Join(rooms, k, c), k, c), k))
                = Cardinality(Get(rooms, k) \cup {c})
          /\ c \notin Get(rooms, k) => Leave(rooms, k, c) = rooms

\* Three joins and two leaves of R1 while R2 is absent from the registry.
C4_Witness ==
    /\ joins["R1"] = 3
    /\ leaves["R1"] = 2
    /\ Cardinality(Get(rooms, "R1")) = 1
    /\ "R2" \notin DOMAIN rooms

\* C5: when a broadcast is over and a send in it raised, send_text was still
\* called on every other member of the snapshot, and each of them whose own
\* send did not raise has got the frame.
C5_FailureDoesNotStopBroadcast ==
    \A c \in Conns :
        (BroadcastDone(c) /\ \E r \in Conns : FailedNow(c, r)) =>
            \A r \in Audience(c) :
                /\ r \in Range(attempted[c])
                /\ ~FailedNow(c, r) => Copies(r, c, Len(sent[c])) >= 1

\* The send that raised came before a send that delivered, in the same broadcast.
C5_Witness ==
    \E c \in Conns : \E i, j \in 1..Len(snapshot[c]) :
        /\ BroadcastDone(c)
        /\ i < j
        /\ snapshot[c][i] # c
        /\ snapshot[c][j] # c
        /\ FailedNow(c, snapshot[c][i])
        /\ Copies(snapshot[c][j], c, Len(sent[c])) = 1

\* C6: a send that raises is not fatal to the sender: the step in which a
\* send_text of c's broadcast raises leaves c's handler running inside its
\* receive loop (sending to the next member, or back at receive_text) and
\* leaves c a member of its room.
C6_SendFailureNotFatal ==
    [][\A c \in Conns :
          failed'[c] # failed[c] =>
              /\ pc'[c] \in {"Sending", "Relaying"}
              /\ exitKind'[c] = "running"
              /\ c \in Get(rooms', code[c])]_vars

\* A send of c's first broadcast raised, and c went on to read a second frame
\* and to deliver it.
C6_Witness ==
    \E c, r, r2 \in Conns :
        /\ <<1, r>> \in failed[c]
        /\ Len(sent[c]) = 2
        /\ Copies(r2, c, 2) = 1
        /\ BroadcastDone(c)
        /\ c \in Get(rooms, code[c])

\* C7: each client gets the frames of one sender in the order the sender's
\* handler read them.
C7_PerSenderOrder ==
    \A r, s \in Conns : \A i, j \in FromSender(r, s) :
        i < j => received[r][i].seq < received[r][j].seq

\* A client holds two frames of one sender, which a send that raised came between.
C7_Witness ==
    \E r, s, t \in Conns :
        /\ Cardinality(FromSender(r, s)) = 2
        /\ sent[s] = <<"x", "y">>
        /\ <<2, t>> \in failed[s]

\* C8: a frame is delivered only to clients whose handler has the code of the
\* handler that forwarded it.
C8_RoomIsolation ==
    \A r \in Conns : \A i \in 1..Len(received[r]) :
        code[received[r][i].from] = code[r]

\* A frame was forwarded in R1 while C was a member of R2, and C got nothing.
C8_Witness ==
    /\ code["C"] = "R2"
    /\ "C" \in Get(rooms, "R2")
    /\ pc["C"] = "Relaying"
    /\ Copies("B", "A", 1) = 1
    /\ BroadcastDone("A")
    /\ received["C"] = <<>>

\* C9: a slow peer does not block the broadcasting task: a handler that is in
\* a broadcast always has a step it can take.
C9_SlowPeerDoesNotBlock ==
    \A c \in Conns : pc[c] = "Sending" => ENABLED Handler(c)

\* C10: frames are forwarded verbatim, one outbound frame per other member:
\* every frame a client got is the frame of that number that a handler of the
\* same room read from another client, no client gets a frame twice, and a
\* finished broadcast has called send_text exactly once on each other member
\* of its snapshot.
C10_Verbatim ==
    /\ \A r \in Conns : \A i \in 1..Len(received[r]) :
          LET m == received[r][i] IN
          /\ m.from # r
          /\ code[m.from] = code[r]
          /\ m.seq \in 1..Len(sent[m.from])
          /\ m.body = sent[m.from][m.seq]
    /\ \A r, s \in Conns : \A n \in 1..MaxMsgs : Copies(r, s, n) <= 1
    /\ \A c \in Conns :
          BroadcastDone(c) =>
              /\ Range(attempted[c]) = Audience(c)
              /\ Len(attempted[c]) = Cardinality(Audience(c))

\* A handler read "x" and then "y", and a client got both, each as read.
C10_Witness ==
    \E r, s \in Conns :
        /\ sent[s] = <<"x", "y">>
        /\ Len(received[r]) = 2
        /\ received[r][1] = [from |-> s, seq |-> 1, body |-> "x"]
        /\ received[r][2] = [from |-> s, seq |-> 2, body |-> "y"]
        /\ Len(attempted[s]) = 2

\* C11: the registry does not keep a closed connection: once c's channel is
\* closed, c is eventually in no member set, whatever c's handler was doing.
C11_ClosedEventuallyRemoved ==
    \A c \in Conns :
        (chan[c] = "closed") ~> (\A k \in DOMAIN rooms : c \notin rooms[k])

\* c's handler is suspended in a send_text to a member whose client does not read.
BlockedOnSlowPeer(c) ==
    pc[c] = "Sending" /\ chan[snapshot[c][idx[c]]] = "stalled"

\* C12: while a broadcast is suspended in a send to a slow member, the join
\* of a connecting handler of the same room and the leave of a member whose
\* channel is closed are enabled: they do not wait for the broadcast.
C12_JoinLeaveNotStalled ==
    \A c, d \in Conns :
        (c # d /\ code[c] = code[d] /\ BlockedOnSlowPeer(c)) =>
            /\ pc[d] = "Connecting" => ENABLED AcceptOk(d)
            /\ (pc[d] = "Relaying" /\ chan[d] = "closed") => ENABLED RecvDisconnect(d)

\* A joined the room after B took its snapshot and B is still suspended in
\* its send to the slow C.
C12_Witness ==
    /\ BlockedOnSlowPeer("B")
    /\ snapshot["B"][idx["B"]] = "C"
    /\ "A" \notin Range(snapshot["B"])
    /\ "A" \in Get(rooms, code["B"])
    /\ pc["A"] = "Relaying"

\* The state of section 4.3 that c's handler is in.  Joined is passed inside
\* the step that returns from accept(): lines 156-158 run up to receive_text
\* with no await.  A handler whose accept() raised never entered the machine.
Phase(p) ==
    CASE p = "Connecting" -> 1
      [] p \in {"Relaying", "Sending"} -> 2
      [] p = "Closed" -> 3
      [] p = "Rejected" -> 0

InRegistry(r, c) == \E k \in DOMAIN r : c \in r[k]

\* C13: a handler goes through Connecting, Joined/Relaying and Closed in that
\* order: Closed (and a refused upgrade) is final, a connection enters the
\* registry only from Connecting and leaves it only on becoming Closed, and a
\* handler reads and forwards frames only while it is Relaying.
C13_Lifecycle ==
    [][\A c \in Conns :
          /\ pc[c] \in {"Closed", "Rejected"} => pc'[c] = pc[c]
          /\ Phase(pc'[c]) # 0 => Phase(pc'[c]) \in {Phase(pc[c]), Phase(pc[c]) + 1}
          /\ Phase(pc'[c]) = 0 => pc[c] \in {"Connecting", "Rejected"}
          /\ (InRegistry(rooms', c) /\ ~InRegistry(rooms, c)) => pc[c] = "Connecting"
          /\ (InRegistry(rooms, c) /\ ~InRegistry(rooms', c)) => pc'[c] = "Closed"
          /\ sent'[c] # sent[c] => (pc[c] = "Relaying" /\ InRegistry(rooms, c))
          /\ \A r \in Conns :
                (Len(received'[r]) > Len(received[r])
                    /\ received'[r][Len(received'[r])].from = c)
                    => (pc[c] = "Sending" /\ InRegistry(rooms, c))]_vars

\* A handler went through the whole cycle: it joined, forwarded a frame that
\* arrived, and is closed and out of the registry.
C13_Witness ==
    \E c, r \in Conns :
        /\ pc[c] = "Closed"
        /\ Len(sent[c]) = 1
        /\ Copies(r, c, 1) = 1
        /\ ~InRegistry(rooms, c)

\* C14: a connection is in at most one room: the member sets of two different
\* codes are disjoint, and a connection is a member only under the code of its
\* own upgrade path.
C14_AtMostOneRoom ==
    /\ \A k1, k2 \in DOMAIN rooms : k1 # k2 => rooms[k1] \cap rooms[k2] = {}
    /\ \A k \in DOMAIN rooms : \A c \in rooms[k] : code[c] = k

\* Both rooms exist, each with the connections of its code.
C14_Witness ==
    /\ DOMAIN rooms = {"R1", "R2"}
    /\ rooms["R1"] = {"A", "B"}
    /\ rooms["R2"] = {"C"}

\* C15: a failed upgrade is refused before the join: the step in which c's
\* accept() raises leaves the registry as it was, and c is in no room and its
\* code has gained no entry.
C15_UpgradeFailedBeforeJoin ==
    [][\A c \in Conns :
          (pc[c] = "Connecting" /\ pc'[c] = "Rejected") =>
              /\ rooms' = rooms
              /\ ~InRegistry(rooms', c)
              /\ joins' = joins]_vars

\* C's upgrade failed while nobody had joined its room R2: R2 has no entry.
C15_Witness ==
    /\ code["C"] = "R2"
    /\ pc["C"] = "Rejected"
    /\ exitKind["C"] = "UpgradeFailed"
    /\ "R2" \notin DOMAIN rooms
    /\ "R1" \in DOMAIN rooms

\* C16: a broadcast iterates a snapshot: the list is the member set at the
\* moment the frame is handled, the joins and leaves of others during the
\* broadcast neither change it nor end the loop, and the broadcast ends having
\* called send_text on exactly the members of the list other than the sender.
C16_SnapshotIteration ==
    [][\A c \in Conns :
          /\ sent'[c] # sent[c] =>
                /\ Range(snapshot'[c]) = Get(rooms, code[c])
                /\ Len(snapshot'[c]) = Cardinality(Get(rooms, code[c]))
                /\ pc'[c] = "Relaying" => Range(snapshot'[c]) = {c}
          /\ pc[c] = "Sending" =>
                /\ pc'[c] \in {"Sending", "Relaying"}
                /\ snapshot'[c] = snapshot[c]
                /\ rooms' # rooms => (idx'[c] = idx[c] /\ pc'[c] = pc[c])
          /\ (pc[c] = "Sending" /\ pc'[c] = "Relaying") =>
                Range(attempted'[c]) = Range(snapshot[c]) \ {c}]_vars

\* During c's broadcast j joined the room and r left it: r, in the list, was
\* attempted (and the send raised); j, not in the list, got nothing.
C16_Witness ==
    \E c, r, j \in Conns :
        /\ BroadcastDone(c)
        /\ Range(snapshot[c]) = {c, r}
        /\ attempted[c] = <<r>>
        /\ FailedNow(c, r)
        /\ pc[r] = "Closed"
        /\ j \notin Range(snapshot[c])
        /\ j \in Get(rooms, code[c])
        /\ received[j] = <<>>

\* c is in the member set of its own code.
IsMember(r, c) == c \in Get(r, code[c])

\* C17: join and leave are atomic with respect to the other handlers: the
\* step that returns from accept() leaves c a member of an existing entry, a
\* step of one handler changes the membership of no other connection, and a
\* handler that has joined and not ended stays a member.  So a join is not
\* lost to the leave of the last member of the same room.
C17_JoinLeaveAtomic ==
    [][\A c \in Conns :
          /\ (pc[c] = "Connecting" /\ pc'[c] = "Relaying") =>
                (code[c] \in DOMAIN rooms' /\ IsMember(rooms', c))
          /\ pc'[c] # pc[c] =>
                \A d \in Conns \ {c} : IsMember(rooms', d) = IsMember(rooms, d)
          /\ (IsMember(rooms, c) /\ pc'[c] \in {"Relaying", "Sending"}) =>
                IsMember(rooms', c)]_vars

\* A, the last member of R1, has left and B has joined R1: B is the member of
\* the entry of R1, whichever of the two steps came first.
C17_Witness ==
    /\ pc["A"] = "Closed"
    /\ joins["R1"] = 2
    /\ leaves["R1"] = 1
    /\ pc["B"] = "Relaying"
    /\ "R1" \in DOMAIN rooms
    /\ rooms["R1"] = {"B"}

\* C18: a broadcast leaves the registry as it is: a step that reads a frame,
\* delivers one or has a send raise changes neither the rooms nor their
\* members, so a member whose send raised is still a member after it.
C18_BroadcastKeepsRegistry ==
    [][(sent' # sent \/ received' # received \/ failed' # failed) =>
          /\ rooms' = rooms
          /\ joins' = joins
          /\ leaves' = leaves]_vars

\* The send to r raised in a broadcast that is over, and r, whose handler has
\* not yet seen the close, is still a member.
C18_Witness ==
    \E c, r \in Conns :
        /\ BroadcastDone(c)
        /\ FailedNow(c, r)
        /\ pc[r] = "Relaying"
        /\ chan[r] = "closed"
        /\ r \in Get(rooms, code[c])

\* C19: delivery is at most once, with no retry: in one broadcast send_text is
\* called at most once per recipient, the send a handler is suspended in is
\* never a second one to the same recipient, and a frame whose send to r
\* raised never reaches r.
C19_AtMostOnceNoRetry ==
    \A c \in Conns :
        /\ \A i, j \in 1..Len(attempted[c]) :
              attempted[c][i] = attempted[c][j] => i = j
        /\ pc[c] = "Sending" => snapshot[c][idx[c]] \notin Range(attempted[c])
        /\ \A n \in 1..Len(sent[c]) : \A r \in Conns :
              <<n, r>> \in failed[c] => Copies(r, c, n) = 0

\* The send of c's first frame to r raised; c has since handled a second
\* frame, and r holds no copy of the first.
C19_Witness ==
    \E c, r \in Conns :
        /\ <<1, r>> \in failed[c]
        /\ Len(sent[c]) = 2
        /\ BroadcastDone(c)
        /\ r \in Range(attempted[c])
        /\ Copies(r, c, 1) = 0

\* C20: membership matches the handler's state: a connection is in the member
\* set of its code exactly when its handler has joined and not yet run the
\* cleanup, suspended in receive_text or in a send_text; so the room of a
\* handler that is broadcasting has an entry.
C20_MembershipMatchesState ==
    \A c \in Conns :
        /\ InRegistry(rooms, c) <=> pc[c] \in {"Relaying", "Sending"}
        /\ InRegistry(rooms, c) => IsMember(rooms, c)
        /\ pc[c] = "Sending" => code[c] \in DOMAIN rooms

\* A handler suspended in a send to a slow peer is a member, and so is the
\* peer; a handler of its list that has ended since is not.
C20_Witness ==
    \E c, e \in Conns :
        /\ BlockedOnSlowPeer(c)
        /\ IsMember(rooms, c)
        /\ IsMember(rooms, snapshot[c][idx[c]])
        /\ pc[e] = "Closed"
        /\ e \in Range(snapshot[c])
        /\ ~InRegistry(rooms, e)

====
